---------------------------- MODULE Spec2Model ----------------------------
(***************************************************************************)
(* A model of facedancer's USBInterface (src/facedancer/interface.py):     *)
(* the endpoint registry, the two descriptor registries, the descriptor    *)
(* encoder, the SET_INTERFACE / GET_INTERFACE request handlers and the     *)
(* three traffic handlers.                                                 *)
(*                                                                         *)
(* Objects are modelled by identity: an interface is the record of its     *)
(* (number, alternate) fields, an endpoint and a descriptor are indices    *)
(* into a pool whose attributes are given by operators.  A Python dict is  *)
(* a sequence of [key, value] entries with pairwise distinct keys, in      *)
(* insertion order.                                                        *)
(***************************************************************************)
EXTENDS Integers, Sequences, FiniteSets, TLC

(***************************************************************************)
(* Bounds of the model.                                                    *)
(***************************************************************************)
\* Endpoint objects 1..NumEndpoints exist.
NumEndpoints == 3
\* Descriptor objects 1..NumDescriptors exist.
NumDescriptors == 5
\* add_descriptor is offered while attached_descriptors is shorter than this.
MaxAttached == 2
\* Requests carry index_low in 0..MaxIndexLow and value in 0..MaxValue.
MaxIndexLow == 2
MaxValue == 2
\* Payload bytes of a data-received event are in 0..MaxPayloadByte.
MaxPayloadByte == 0
\* Stalled requests in a row are counted up to MaxStalled.
MaxStalled == 2
\* The bytes of a descriptor and the fields of an encoded interface are in 0..MaxByte.
MaxByte == 1
\* get_endpoint and has_endpoint are asked for endpoint numbers 0..MaxLookupNumber.
MaxLookupNumber == 1

(***************************************************************************)
(* Values of the collaborating modules.                                    *)
(***************************************************************************)
\* Python's None, for integer-valued attributes.
None == -1
\* USBDirection.OUT and USBDirection.IN.
USBDirection_OUT == 0
USBDirection_IN == 1
\* The direction bit of an endpoint address.
DirectionMask == 128

(***************************************************************************)
(* The interface objects: the two alternate settings of interface 0 and    *)
(* the only setting of interface 1.  NoInterface is the None of a parent   *)
(* link.                                                                   *)
(***************************************************************************)
Interfaces == { [number |-> 0, alternate |-> 0],
                [number |-> 0, alternate |-> 1],
                [number |-> 1, alternate |-> 0] }
NoInterface == [number |-> None, alternate |-> None]

EndpointObjects == 1..NumEndpoints

\* Endpoint attributes: objects 1, 2 and 4 are endpoint 1 IN (the same address,
\* as the endpoints of alternate settings are), object 3 is endpoint 1 OUT;
\* objects 5 to 8 are endpoint 2 in the same way, and so on.
EndpointNumber(e) == 1 + ((e - 1) \div 4)
EndpointDirection(e) == IF e % 4 = 3 THEN USBDirection_OUT ELSE USBDirection_IN

\* USBEndpoint.address_for_number(number, direction).
address_for_number(endpoint_number, direction) ==
    endpoint_number + (IF direction = USBDirection_IN THEN DirectionMask ELSE 0)

\* USBEndpoint.address.
EndpointAddress(e) == address_for_number(EndpointNumber(e), EndpointDirection(e))

\* USBEndpoint.get_descriptor(): the 7-byte endpoint descriptor.
EndpointDescriptor(e) == << 7, 5, EndpointAddress(e), 2, 64, 0, 0 >>

\* USBEndpoint.attached_descriptors, resolved to bytes: the endpoints with an
\* even index carry one class-specific descriptor.
EndpointAttachedDescriptors(e) == IF e % 2 = 0 THEN << << 3, 37, e >> >> ELSE <<>>

(***************************************************************************)
(* The descriptor objects.  Objects 1 and 4 are included in the            *)
(* configuration block; objects 1 and 2 have no number; objects 3, 4, 5    *)
(* and 6 all have the identifier (0x21, 0).                                *)
(***************************************************************************)
DescriptorObjects == 1..NumDescriptors
DescriptorIncludeInConfig(d) == d % 3 = 1
DescriptorNumber(d) == IF d <= 2 THEN None ELSE (d - 3) \div 4
DescriptorTypeNumber(d) == 33
\* USBDescriptor.get_identifier().
DescriptorIdentifier(d) == << DescriptorTypeNumber(d), DescriptorNumber(d) >>
\* The bytes the descriptor yields when called: bLength, bDescriptorType and a
\* payload that tells the objects apart (an odd object is one byte longer).
DescriptorBytes(d) ==
    IF d % 2 = 1 THEN << 4, DescriptorTypeNumber(d), d, 0 >>
    ELSE << 3, DescriptorTypeNumber(d), d >>

\* The fields of an interface that only the encoder reads.
ClassNumber(self) == 3
SubclassNumber(self) == self.alternate
ProtocolNumber(self) == 0
\* string_manager.get_index(self.interface_string).
StringIndex(self) == 4 + self.number

(***************************************************************************)
(* Python dicts.                                                           *)
(***************************************************************************)
DictKeys(d) == { d[k].key : k \in 1..Len(d) }
DictHas(d, key) == key \in DictKeys(d)
DictGet(d, key) == d[CHOOSE k \in 1..Len(d) : d[k].key = key].value
DictValues(d) == [k \in 1..Len(d) |-> d[k].value]
\* d[key] = value: a new key goes to the end, a known key keeps its place.
DictSet(d, key, value) ==
    IF DictHas(d, key)
    THEN [k \in 1..Len(d) |-> IF d[k].key = key
                              THEN [key |-> key, value |-> value] ELSE d[k]]
    ELSE Append(d, [key |-> key, value |-> value])

\* An unordered dict (its order is never read): a function on its keys.
MapSet(m, key, value) ==
    [k \in DOMAIN m \cup {key} |-> IF k = key THEN value ELSE m[k]]

VARIABLES
    endpoints,                \* interface -> dict address -> endpoint
    endpoint_parent,          \* endpoint -> interface, or NoInterface
    attached_descriptors,     \* interface -> sequence of descriptors
    requestable_descriptors,  \* interface -> dict (type_number, number) -> descriptor
    descriptor_parent,        \* descriptor -> interface, or NoInterface
    interfaces,               \* configuration.interfaces: (number, alternate) -> interface
    active_interfaces,        \* configuration.active_interfaces: number -> interface
    device_configuration,     \* device.configuration is not None
    call,                     \* the operation that ran last and its arguments
    effects,                  \* what that operation did to its collaborators, in order
    raised,                   \* whether that operation raised an exception
    last_acknowledged,        \* number -> value of the last acknowledged SET_INTERFACE
    stalled_before,           \* how many requests in a row were stalled just before that operation
    constructing,             \* the interface being built, NoInterface once the device is built
    added_endpoints,          \* the endpoints add_endpoint accepted on it, in call order
    added_descriptors,        \* the descriptors add_descriptor accepted on it, in call order
    binary_descriptor,        \* the bytes handed to from_binary_descriptor
    encoded_interface,        \* the interface those bytes were encoded from, if any
    parsed_interface          \* the interface from_binary_descriptor made of them, if any

vars == << endpoints, endpoint_parent, attached_descriptors,
           requestable_descriptors, descriptor_parent, interfaces,
           active_interfaces, device_configuration, call, effects, raised,
           last_acknowledged, stalled_before, constructing, added_endpoints,
           added_descriptors, binary_descriptor, encoded_interface, parsed_interface >>

registries == << endpoints, endpoint_parent, attached_descriptors,
                 requestable_descriptors, descriptor_parent >>

construction == << constructing, added_endpoints, added_descriptors >>

configuration == << interfaces, active_interfaces, device_configuration >>

wire == << binary_descriptor, encoded_interface, parsed_interface >>

\* An interface object outside the configuration, with all the fields the
\* encoder reads; NoObject is the None of such an object.
InterfaceObject(number, alternate, class_number, subclass_number, protocol_number, interface_string, eps, attached, requestable) ==
    [number |-> number, alternate |-> alternate, class_number |-> class_number,
     subclass_number |-> subclass_number, protocol_number |-> protocol_number,
     interface_string |-> interface_string, endpoints |-> eps,
     attached_descriptors |-> attached, requestable_descriptors |-> requestable]
NoObject == InterfaceObject(None, None, None, None, None, None, <<>>, <<>>, <<>>)

(***************************************************************************)
(* Effects: one record per call an operation makes on a collaborator.      *)
(***************************************************************************)
Effect(kind, a, b, data) == [kind |-> kind, a |-> a, b |-> b, data |-> data]
Stall == Effect("request.stall", None, None, <<>>)
Acknowledge == Effect("request.acknowledge", None, None, <<>>)
Reply(data) == Effect("request.reply", None, None, data)
ClearHalt(number, direction) == Effect("backend.clear_halt", number, direction, <<>>)
\* configuration.active_interfaces[number] = interface
SetActive(number, interface) ==
    Effect("active_interfaces.__setitem__", number, interface.alternate, <<>>)

Call(op, self, a, b, data) == [op |-> op, self |-> self, a |-> a, b |-> b, data |-> data]
NoCall == Call("none", NoInterface, None, None, <<>>)

(***************************************************************************)
(* add_endpoint, lines 104-117, on one interface's registry.               *)
(***************************************************************************)
\* A faulty variant: an endpoint with a known address replaces the first.
add_endpoint_replacing_duplicate(self, eps, parent, endpoint) ==
    [raised |-> FALSE,
     endpoints |-> DictSet(eps, EndpointAddress(endpoint), endpoint),
     parent |-> [parent EXCEPT ![endpoint] = self]]

add_endpoint(self, eps, parent, endpoint) ==
    IF DictHas(eps, EndpointAddress(endpoint))
    THEN [raised |-> TRUE, endpoints |-> eps, parent |-> parent]
    ELSE [raised |-> FALSE,
          endpoints |-> DictSet(eps, EndpointAddress(endpoint), endpoint),
          parent |-> [parent EXCEPT ![endpoint] = self]]

(***************************************************************************)
(* __post_init__, lines 86-87: the endpoints declared on the class are     *)
(* added in order.  The result is the registry and the parent links, and   *)
(* whether some add_endpoint raised.                                       *)
(***************************************************************************)
RECURSIVE post_init_endpoints(_, _, _, _)
post_init_endpoints(self, declared, eps, parent) ==
    IF declared = <<>>
    THEN [raised |-> FALSE, endpoints |-> eps, parent |-> parent]
    ELSE LET r == add_endpoint(self, eps, parent, Head(declared))
         IN  IF r.raised THEN r
             ELSE post_init_endpoints(self, Tail(declared), r.endpoints, r.parent)

\* The interface class an endpoint class is declared in: the endpoints of the
\* two alternate settings of interface 0 share an address (objects 1 and 2).
DeclaringInterface(e) ==
    CASE (e - 1) % 4 = 0 -> [number |-> 0, alternate |-> 0]
      [] (e - 1) % 4 = 3 -> [number |-> 1, alternate |-> 0]
      [] OTHER           -> [number |-> 0, alternate |-> 1]

\* The members of a set of endpoint objects, in the order of declaration.
RECURSIVE InOrder(_)
InOrder(S) ==
    IF S = {} THEN <<>>
    ELSE LET m == CHOOSE x \in S : \A y \in S : x <= y
         IN  << m >> \o InOrder(S \ {m})

\* A device description: the endpoint classes that are declared, each on its
\* interface class.  Construction of the device did not raise.
Declared(description, self) ==
    InOrder({ e \in description : DeclaringInterface(e) = self })

Descriptions ==
    { d \in SUBSET EndpointObjects :
        \A i \in Interfaces :
            ~post_init_endpoints(i, Declared(d, i), <<>>,
                                 [e \in EndpointObjects |-> NoInterface]).raised }

\* USBInterface.get_identifier, lines 345-346.
get_identifier(self) == << self.number, self.alternate >>

\* USBInterface.matches_identifier, lines 353-354.
matches_identifier(self, other) == other = self.number

\* The configuration's interface table, keyed by each interface's identifier.
InterfaceTable ==
    [id \in { get_identifier(i) : i \in Interfaces } |->
        CHOOSE i \in Interfaces : get_identifier(i) = id]

\* The active maps a configuration can hold: for some interface numbers, an
\* interface of the table with that number.
ActiveMaps ==
    LET numbers == { i.number : i \in Interfaces }
    IN  UNION { { m \in [S -> Interfaces] : \A n \in S : m[n].number = n } :
                S \in SUBSET numbers }

(***************************************************************************)
(* The state after the device is constructed: every interface holds the    *)
(* endpoints its class declares and is attached to the configuration.      *)
(***************************************************************************)
Init ==
    /\ \E d \in Descriptions :
          /\ endpoints = [i \in Interfaces |->
                post_init_endpoints(i, Declared(d, i), <<>>,
                    [e \in EndpointObjects |-> NoInterface]).endpoints]
          /\ endpoint_parent = [e \in EndpointObjects |->
                IF e \in d THEN DeclaringInterface(e) ELSE NoInterface]
    /\ attached_descriptors = [i \in Interfaces |-> <<>>]
    /\ requestable_descriptors = [i \in Interfaces |-> <<>>]
    /\ descriptor_parent = [d \in DescriptorObjects |-> NoInterface]
    /\ interfaces = InterfaceTable
    /\ active_interfaces \in ActiveMaps
    /\ device_configuration \in BOOLEAN
    /\ call = NoCall
    /\ effects = <<>>
    /\ raised = FALSE
    /\ last_acknowledged = << >>
    /\ stalled_before = 0
    /\ constructing = NoInterface
    /\ added_endpoints = <<>>
    /\ added_descriptors = <<>>
    /\ binary_descriptor = <<>>
    /\ encoded_interface = NoObject
    /\ parsed_interface = NoObject

(***************************************************************************)
(* handle_set_interface_request, lines 296-319.  The result is the new     *)
(* active map and the calls made, in order.                                *)
(***************************************************************************)
RECURSIVE clear_halts(_)
clear_halts(values) ==
    IF values = <<>> THEN <<>>
    ELSE << ClearHalt(EndpointNumber(Head(values)), EndpointDirection(Head(values))) >>
         \o clear_halts(Tail(values))

\* A faulty variant: the halts cleared are those of the handling instance.
set_interface_clearing_own_endpoints(self, index_low, value) ==
    IF ~device_configuration
    THEN [active_interfaces |-> active_interfaces, effects |-> << Stall >>]
    ELSE IF << index_low, value >> \notin DOMAIN interfaces
         THEN [active_interfaces |-> active_interfaces, effects |-> << Stall >>]
         ELSE [active_interfaces |->
                  MapSet(active_interfaces, index_low, interfaces[<< index_low, value >>]),
               effects |-> << SetActive(index_low, interfaces[<< index_low, value >>]) >>
                           \o clear_halts(DictValues(endpoints[self]))
                           \o << Acknowledge >>]

\* A faulty variant: the check of device.configuration is missing.
set_interface_without_configuration_check(self, index_low, value) ==
    IF << index_low, value >> \notin DOMAIN interfaces
    THEN [active_interfaces |-> active_interfaces, effects |-> << Stall >>]
    ELSE [active_interfaces |->
             MapSet(active_interfaces, index_low, interfaces[<< index_low, value >>]),
          effects |-> << SetActive(index_low, interfaces[<< index_low, value >>]) >>
                      \o clear_halts(DictValues(endpoints[interfaces[<< index_low, value >>]]))
                      \o << Acknowledge >>]

\* A faulty variant: once a request was stalled, the handler keeps stalling.
set_interface_stalling_after_stall(self, index_low, value) ==
    IF ~device_configuration \/ ( \E k \in 1..Len(effects) : effects[k] = Stall )
    THEN [active_interfaces |-> active_interfaces, effects |-> << Stall >>]
    ELSE IF << index_low, value >> \notin DOMAIN interfaces
         THEN [active_interfaces |-> active_interfaces, effects |-> << Stall >>]
         ELSE [active_interfaces |->
                  MapSet(active_interfaces, index_low, interfaces[<< index_low, value >>]),
               effects |-> << SetActive(index_low, interfaces[<< index_low, value >>]) >>
                           \o clear_halts(DictValues(endpoints[interfaces[<< index_low, value >>]]))
                           \o << Acknowledge >>]

\* A faulty variant: the acknowledge is sent before the table is looked up.
set_interface_acknowledging_early(self, index_low, value) ==
    IF ~device_configuration
    THEN [active_interfaces |-> active_interfaces, effects |-> << Stall >>]
    ELSE IF << index_low, value >> \notin DOMAIN interfaces
         THEN [active_interfaces |-> active_interfaces,
               effects |-> << Acknowledge, Stall >>]
         ELSE [active_interfaces |->
                  MapSet(active_interfaces, index_low, interfaces[<< index_low, value >>]),
               effects |-> << Acknowledge,
                              SetActive(index_low, interfaces[<< index_low, value >>]) >>
                           \o clear_halts(DictValues(endpoints[interfaces[<< index_low, value >>]]))]

\* A faulty variant: the acknowledge is sent before the halts are cleared.
set_interface_acknowledging_before_clear_halt(self, index_low, value) ==
    IF ~device_configuration
    THEN [active_interfaces |-> active_interfaces, effects |-> << Stall >>]
    ELSE IF << index_low, value >> \notin DOMAIN interfaces
         THEN [active_interfaces |-> active_interfaces, effects |-> << Stall >>]
         ELSE [active_interfaces |->
                  MapSet(active_interfaces, index_low, interfaces[<< index_low, value >>]),
               effects |-> << SetActive(index_low, interfaces[<< index_low, value >>]),
                              Acknowledge >>
                           \o clear_halts(DictValues(endpoints[interfaces[<< index_low, value >>]]))]

\* A faulty variant: the active map is replaced by one holding the new entry only.
set_interface_resetting_active_map(self, index_low, value) ==
    IF ~device_configuration
    THEN [active_interfaces |-> active_interfaces, effects |-> << Stall >>]
    ELSE IF << index_low, value >> \notin DOMAIN interfaces
         THEN [active_interfaces |-> active_interfaces, effects |-> << Stall >>]
         ELSE [active_interfaces |->
                  MapSet(<< >>, index_low, interfaces[<< index_low, value >>]),
               effects |-> << SetActive(index_low, interfaces[<< index_low, value >>]) >>
                           \o clear_halts(DictValues(endpoints[interfaces[<< index_low, value >>]]))
                           \o << Acknowledge >>]

\* A faulty variant: the active entry is stored under the alternate.
set_interface_keying_by_alternate(self, index_low, value) ==
    IF ~device_configuration
    THEN [active_interfaces |-> active_interfaces, effects |-> << Stall >>]
    ELSE IF << index_low, value >> \notin DOMAIN interfaces
         THEN [active_interfaces |-> active_interfaces, effects |-> << Stall >>]
         ELSE [active_interfaces |->
                  MapSet(active_interfaces, value, interfaces[<< index_low, value >>]),
               effects |-> << SetActive(value, interfaces[<< index_low, value >>]) >>
                           \o clear_halts(DictValues(endpoints[interfaces[<< index_low, value >>]]))
                           \o << Acknowledge >>]

handle_set_interface_request(self, index_low, value) ==
    IF ~device_configuration
    THEN [active_interfaces |-> active_interfaces, effects |-> << Stall >>]
    ELSE LET number == index_low
             alternate == value
             identifier == << number, alternate >>
         IN  IF identifier \notin DOMAIN interfaces
             THEN [active_interfaces |-> active_interfaces, effects |-> << Stall >>]
             ELSE LET interface == interfaces[identifier]
                  IN  [active_interfaces |-> MapSet(active_interfaces, number, interface),
                       effects |-> << SetActive(number, interface) >>
                                   \o clear_halts(DictValues(endpoints[interface]))
                                   \o << Acknowledge >>]

(***************************************************************************)
(* handle_get_interface_request, lines 323-338.                            *)
(***************************************************************************)
\* A faulty variant: the reply carries the interface's number.
get_interface_replying_number(self, index_low) ==
    IF ~device_configuration
    THEN << Stall >>
    ELSE IF index_low \notin DOMAIN active_interfaces
         THEN << Stall >>
         ELSE << Reply(<< active_interfaces[index_low].number >>) >>

\* A faulty variant: the reply carries the alternate of the handling instance.
get_interface_replying_own_alternate(self, index_low) ==
    IF ~device_configuration
    THEN << Stall >>
    ELSE IF index_low \notin DOMAIN active_interfaces
         THEN << Stall >>
         ELSE << Reply(<< self.alternate >>) >>

handle_get_interface_request(self, index_low) ==
    IF ~device_configuration
    THEN << Stall >>
    ELSE LET number == index_low
         IN  IF number \notin DOMAIN active_interfaces
             THEN << Stall >>
             ELSE << Reply(<< active_interfaces[number].alternate >>) >>

\* The count of stalled requests in a row, once the request that gave
\* `effs` is over.
StalledInARow(effs) ==
    IF \E k \in 1..Len(effs) : effs[k] = Stall
    THEN IF stalled_before < MaxStalled THEN stalled_before + 1 ELSE MaxStalled
    ELSE 0

SetInterface(self, index_low, value) ==
    LET r == handle_set_interface_request(self, index_low, value)
    IN  /\ active_interfaces' = r.active_interfaces
        /\ effects' = r.effects
        /\ stalled_before' = StalledInARow(effects)
        /\ raised' = FALSE
        /\ call' = Call("SET_INTERFACE", self, index_low, value, <<>>)
        /\ last_acknowledged' =
              IF Acknowledge \in { r.effects[k] : k \in 1..Len(r.effects) }
              THEN MapSet(last_acknowledged, index_low, value)
              ELSE last_acknowledged
        /\ UNCHANGED << wire, registries, construction, interfaces, device_configuration >>

\* A faulty variant: a number without an active alternate is given alternate 0
\* of the table, as a dict with a default would.
GetInterfaceInsertingDefault(self, index_low) ==
    /\ effects' = handle_get_interface_request(self, index_low)
    /\ stalled_before' = StalledInARow(effects)
    /\ raised' = FALSE
    /\ call' = Call("GET_INTERFACE", self, index_low, None, <<>>)
    /\ active_interfaces' =
          IF index_low \notin DOMAIN active_interfaces
             /\ << index_low, 0 >> \in DOMAIN interfaces
          THEN MapSet(active_interfaces, index_low, interfaces[<< index_low, 0 >>])
          ELSE active_interfaces
    /\ UNCHANGED << wire, registries, construction, interfaces, device_configuration,
                    last_acknowledged >>

GetInterface(self, index_low) ==
    /\ effects' = handle_get_interface_request(self, index_low)
    /\ stalled_before' = StalledInARow(effects)
    /\ raised' = FALSE
    /\ call' = Call("GET_INTERFACE", self, index_low, None, <<>>)
    /\ UNCHANGED << wire, registries, construction, interfaces, active_interfaces,
                    device_configuration, last_acknowledged >>

HandleSetInterfaceRequest ==
    \E self \in Interfaces : \E index_low \in 0..MaxIndexLow : \E value \in 0..MaxValue :
        SetInterface(self, index_low, value)

HandleGetInterfaceRequest ==
    \E self \in Interfaces : \E index_low \in 0..MaxIndexLow :
        GetInterface(self, index_low)

Next == HandleSetInterfaceRequest \/ HandleGetInterfaceRequest

Spec == Init /\ [][Next]_vars

(***************************************************************************)
(* add_descriptor, lines 144-172, on one interface's two registries.       *)
(***************************************************************************)
\* A faulty variant: the check for a missing number is not made.
add_descriptor_without_number_check(self, attached, requestable, parent, descriptor) ==
    LET identifier == DescriptorIdentifier(descriptor)
    IN  IF DescriptorIncludeInConfig(descriptor)
        THEN [raised |-> FALSE, attached |-> Append(attached, descriptor),
              requestable |-> requestable,
              parent |-> [parent EXCEPT ![descriptor] = self]]
        ELSE IF DictHas(requestable, identifier)
        THEN [raised |-> TRUE, attached |-> attached, requestable |-> requestable,
              parent |-> parent]
        ELSE [raised |-> FALSE, attached |-> attached,
              requestable |-> DictSet(requestable, identifier, descriptor),
              parent |-> [parent EXCEPT ![descriptor] = self]]

\* A faulty variant: a descriptor with a known identifier replaces the first.
add_descriptor_replacing_duplicate(self, attached, requestable, parent, descriptor) ==
    LET identifier == DescriptorIdentifier(descriptor)
    IN  IF DescriptorIncludeInConfig(descriptor)
        THEN [raised |-> FALSE, attached |-> Append(attached, descriptor),
              requestable |-> requestable,
              parent |-> [parent EXCEPT ![descriptor] = self]]
        ELSE IF DescriptorNumber(descriptor) = None
        THEN [raised |-> TRUE, attached |-> attached, requestable |-> requestable,
              parent |-> parent]
        ELSE [raised |-> FALSE, attached |-> attached,
              requestable |-> DictSet(requestable, identifier, descriptor),
              parent |-> [parent EXCEPT ![descriptor] = self]]

\* A faulty variant: the duplicate check is applied to attached descriptors too.
add_descriptor_checking_attached(self, attached, requestable, parent, descriptor) ==
    LET identifier == DescriptorIdentifier(descriptor)
        known == DictHas(requestable, identifier)
                 \/ \E k \in 1..Len(attached) : DescriptorIdentifier(attached[k]) = identifier
    IN  IF DescriptorIncludeInConfig(descriptor) /\ ~known
        THEN [raised |-> FALSE, attached |-> Append(attached, descriptor),
              requestable |-> requestable,
              parent |-> [parent EXCEPT ![descriptor] = self]]
        ELSE IF DescriptorIncludeInConfig(descriptor) \/ DescriptorNumber(descriptor) = None
        THEN [raised |-> TRUE, attached |-> attached, requestable |-> requestable,
              parent |-> parent]
        ELSE IF known
        THEN [raised |-> TRUE, attached |-> attached, requestable |-> requestable,
              parent |-> parent]
        ELSE [raised |-> FALSE, attached |-> attached,
              requestable |-> DictSet(requestable, identifier, descriptor),
              parent |-> [parent EXCEPT ![descriptor] = self]]

add_descriptor(self, attached, requestable, parent, descriptor) ==
    LET identifier == DescriptorIdentifier(descriptor)
    IN  IF DescriptorIncludeInConfig(descriptor)
        THEN [raised |-> FALSE, attached |-> Append(attached, descriptor),
              requestable |-> requestable,
              parent |-> [parent EXCEPT ![descriptor] = self]]
        ELSE IF DescriptorNumber(descriptor) = None
        THEN [raised |-> TRUE, attached |-> attached, requestable |-> requestable,
              parent |-> parent]
        ELSE IF DictHas(requestable, identifier)
        THEN [raised |-> TRUE, attached |-> attached, requestable |-> requestable,
              parent |-> parent]
        ELSE [raised |-> FALSE, attached |-> attached,
              requestable |-> DictSet(requestable, identifier, descriptor),
              parent |-> [parent EXCEPT ![descriptor] = self]]

(***************************************************************************)
(* get_descriptor, lines 253-288.                                          *)
(***************************************************************************)
\* d += x for every x of a sequence of byte strings.
RECURSIVE Concatenate(_)
Concatenate(blobs) ==
    IF blobs = <<>> THEN <<>> ELSE Head(blobs) \o Concatenate(Tail(blobs))

\* Lines 272-276: each attached descriptor, called for its bytes.
attached_bytes(attached) ==
    Concatenate([k \in 1..Len(attached) |-> DescriptorBytes(attached[k])])

\* Lines 279-285: each endpoint's descriptor, then its attached descriptors.
endpoint_bytes(values) ==
    Concatenate([k \in 1..Len(values) |->
        EndpointDescriptor(values[k])
        \o Concatenate(EndpointAttachedDescriptors(values[k]))])

\* The values of a dict in the order of their keys.
RECURSIVE SortedValues(_)
SortedValues(d) ==
    IF d = <<>> THEN <<>>
    ELSE LET k == CHOOSE j \in 1..Len(d) : \A i \in 1..Len(d) : d[j].key <= d[i].key
         IN  << d[k].value >>
             \o SortedValues(SelectSeq(d, LAMBDA x : x.key # d[k].key))

\* A faulty variant: the endpoints are emitted in the order of their addresses.
get_descriptor_sorting_endpoints(self) ==
    << 9, 4, self.number, self.alternate, Len(endpoints[self]),
       ClassNumber(self), SubclassNumber(self), ProtocolNumber(self),
       StringIndex(self) >>
    \o attached_bytes(attached_descriptors[self])
    \o endpoint_bytes(SortedValues(endpoints[self]))

get_descriptor(self) ==
    << 9, 4, self.number, self.alternate, Len(endpoints[self]),
       ClassNumber(self), SubclassNumber(self), ProtocolNumber(self),
       StringIndex(self) >>
    \o attached_bytes(attached_descriptors[self])
    \o endpoint_bytes(DictValues(endpoints[self]))

Return(data) == Effect("return", None, None, data)

(***************************************************************************)
(* get_endpoint and has_endpoint, lines 120-141.                           *)
(***************************************************************************)
\* A faulty variant: the direction is not part of the address looked up.
get_endpoint_ignoring_direction(self, endpoint_number, direction) ==
    LET address == address_for_number(endpoint_number, USBDirection_IN)
    IN  IF DictHas(endpoints[self], address)
        THEN DictGet(endpoints[self], address)
        ELSE None

get_endpoint(self, endpoint_number, direction) ==
    LET address == address_for_number(endpoint_number, direction)
    IN  IF DictHas(endpoints[self], address)
        THEN DictGet(endpoints[self], address)
        ELSE None

has_endpoint(self, endpoint_number, direction) ==
    get_endpoint(self, endpoint_number, direction) # None

\* The value a lookup returns: an endpoint object or None, True (1) or False (0).
ReturnValue(value) == Effect("return", value, None, <<>>)

GetEndpoint(endpoint_number, direction) ==
    /\ effects' = << ReturnValue(get_endpoint(constructing, endpoint_number, direction)) >>
    /\ raised' = FALSE
    /\ call' = Call("get_endpoint", constructing, endpoint_number, direction, <<>>)
    /\ UNCHANGED << wire, stalled_before, registries, configuration, last_acknowledged, construction >>

HasEndpoint(endpoint_number, direction) ==
    /\ effects' = << ReturnValue(
                        IF has_endpoint(constructing, endpoint_number, direction)
                        THEN 1 ELSE 0) >>
    /\ raised' = FALSE
    /\ call' = Call("has_endpoint", constructing, endpoint_number, direction, <<>>)
    /\ UNCHANGED << wire, stalled_before, registries, configuration, last_acknowledged, construction >>

GetEndpointCall ==
    \E endpoint_number \in 0..MaxLookupNumber :
        \E direction \in { USBDirection_OUT, USBDirection_IN } :
            GetEndpoint(endpoint_number, direction)

HasEndpointCall ==
    \E endpoint_number \in 0..MaxLookupNumber :
        \E direction \in { USBDirection_OUT, USBDirection_IN } :
            HasEndpoint(endpoint_number, direction)

(***************************************************************************)
(* The calls made on the interface under construction.                     *)
(***************************************************************************)
AddEndpoint(endpoint) ==
    LET self == constructing
        r == add_endpoint(self, endpoints[self], endpoint_parent, endpoint)
    IN  /\ endpoints' = [endpoints EXCEPT ![self] = r.endpoints]
        /\ endpoint_parent' = r.parent
        /\ raised' = r.raised
        /\ effects' = <<>>
        /\ call' = Call("add_endpoint", self, endpoint, None, <<>>)
        /\ added_endpoints' =
              IF r.raised THEN added_endpoints ELSE Append(added_endpoints, endpoint)
        /\ UNCHANGED << wire, stalled_before, attached_descriptors, requestable_descriptors,
                        descriptor_parent, configuration, last_acknowledged,
                        constructing, added_descriptors >>

AddDescriptor(descriptor) ==
    LET self == constructing
        r == add_descriptor(self, attached_descriptors[self],
                            requestable_descriptors[self], descriptor_parent,
                            descriptor)
    IN  /\ DescriptorIncludeInConfig(descriptor)
              => Len(attached_descriptors[self]) < MaxAttached
        /\ attached_descriptors' = [attached_descriptors EXCEPT ![self] = r.attached]
        /\ requestable_descriptors' =
              [requestable_descriptors EXCEPT ![self] = r.requestable]
        /\ descriptor_parent' = r.parent
        /\ raised' = r.raised
        /\ effects' = <<>>
        /\ call' = Call("add_descriptor", self, descriptor, None, <<>>)
        /\ added_descriptors' =
              IF r.raised THEN added_descriptors
              ELSE Append(added_descriptors, descriptor)
        /\ UNCHANGED << wire, stalled_before, endpoints, endpoint_parent, configuration,
                        last_acknowledged, constructing, added_endpoints >>

GetDescriptor ==
    /\ effects' = << Return(get_descriptor(constructing)) >>
    /\ raised' = FALSE
    /\ call' = Call("get_descriptor", constructing, None, None, <<>>)
    /\ UNCHANGED << wire, stalled_before, registries, configuration, last_acknowledged, construction >>

AddEndpointCall == \E endpoint \in EndpointObjects : AddEndpoint(endpoint)
AddDescriptorCall == \E descriptor \in DescriptorObjects : AddDescriptor(descriptor)

\* An interface object exists, attached to the configuration, and nothing
\* has been added to it yet.
InitReg ==
    /\ constructing \in Interfaces
    /\ endpoints = [i \in Interfaces |-> <<>>]
    /\ endpoint_parent = [e \in EndpointObjects |-> NoInterface]
    /\ attached_descriptors = [i \in Interfaces |-> <<>>]
    /\ requestable_descriptors = [i \in Interfaces |-> <<>>]
    /\ descriptor_parent = [d \in DescriptorObjects |-> NoInterface]
    /\ interfaces = InterfaceTable
    /\ active_interfaces = << >>
    /\ device_configuration = FALSE
    /\ call = NoCall
    /\ effects = <<>>
    /\ raised = FALSE
    /\ last_acknowledged = << >>
    /\ stalled_before = 0
    /\ added_endpoints = <<>>
    /\ added_descriptors = <<>>
    /\ binary_descriptor = <<>>
    /\ encoded_interface = NoObject
    /\ parsed_interface = NoObject

NextReg ==
    \/ AddEndpointCall \/ AddDescriptorCall \/ GetDescriptor
    \/ GetEndpointCall \/ HasEndpointCall

SpecReg == InitReg /\ [][NextReg]_vars

(***************************************************************************)
(* The traffic handlers, lines 179-226.  An endpoint handler call carries  *)
(* the endpoint object it is made on, a device call the endpoint number.   *)
(***************************************************************************)
handle_data_received(self, endpoint, data) ==
    IF has_endpoint(self, EndpointNumber(endpoint), EndpointDirection(endpoint))
    THEN << Effect("endpoint.handle_data_received", endpoint, None, data) >>
    ELSE << Effect("device.handle_unexpected_data_received",
                   EndpointNumber(endpoint), None, data) >>

\* A faulty variant: no fallback, as in handle_buffer_empty.
handle_data_requested_without_fallback(self, endpoint) ==
    IF has_endpoint(self, EndpointNumber(endpoint), EndpointDirection(endpoint))
    THEN << Effect("endpoint.handle_data_requested", endpoint, None, <<>>) >>
    ELSE <<>>

handle_data_requested(self, endpoint) ==
    IF has_endpoint(self, EndpointNumber(endpoint), EndpointDirection(endpoint))
    THEN << Effect("endpoint.handle_data_requested", endpoint, None, <<>>) >>
    ELSE << Effect("device.handle_unexpected_data_requested",
                   EndpointNumber(endpoint), None, <<>>) >>

\* A faulty variant: an unregistered endpoint is reported to the device, as
\* handle_data_requested does.
handle_buffer_empty_with_fallback(self, endpoint) ==
    IF has_endpoint(self, EndpointNumber(endpoint), EndpointDirection(endpoint))
    THEN << Effect("endpoint.handle_buffer_empty", endpoint, None, <<>>) >>
    ELSE << Effect("device.handle_unexpected_data_requested",
                   EndpointNumber(endpoint), None, <<>>) >>

handle_buffer_empty(self, endpoint) ==
    IF has_endpoint(self, EndpointNumber(endpoint), EndpointDirection(endpoint))
    THEN << Effect("endpoint.handle_buffer_empty", endpoint, None, <<>>) >>
    ELSE <<>>

\* The payloads of a data-received event.
Payloads == { <<>> } \cup { << b >> : b \in 0..MaxPayloadByte }

HandleDataReceived(self, endpoint, data) ==
    /\ effects' = handle_data_received(self, endpoint, data)
    /\ raised' = FALSE
    /\ call' = Call("handle_data_received", self, endpoint, None, data)
    /\ UNCHANGED << wire, stalled_before, registries, configuration, last_acknowledged, construction >>

HandleDataRequested(self, endpoint) ==
    /\ effects' = handle_data_requested(self, endpoint)
    /\ raised' = FALSE
    /\ call' = Call("handle_data_requested", self, endpoint, None, <<>>)
    /\ UNCHANGED << wire, stalled_before, registries, configuration, last_acknowledged, construction >>

HandleBufferEmpty(self, endpoint) ==
    /\ effects' = handle_buffer_empty(self, endpoint)
    /\ raised' = FALSE
    /\ call' = Call("handle_buffer_empty", self, endpoint, None, <<>>)
    /\ UNCHANGED << wire, stalled_before, registries, configuration, last_acknowledged, construction >>

DataReceived ==
    \E self \in Interfaces : \E endpoint \in EndpointObjects : \E data \in Payloads :
        HandleDataReceived(self, endpoint, data)

DataRequested ==
    \E self \in Interfaces : \E endpoint \in EndpointObjects :
        HandleDataRequested(self, endpoint)

BufferEmpty ==
    \E self \in Interfaces : \E endpoint \in EndpointObjects :
        HandleBufferEmpty(self, endpoint)

\* The constructed device, configured, with no alternate selected yet.
InitTraffic ==
    /\ Init
    /\ device_configuration
    /\ active_interfaces = << >>

NextTraffic == DataReceived \/ DataRequested \/ BufferEmpty

SpecTraffic == InitTraffic /\ [][NextTraffic]_vars

(***************************************************************************)
(* from_binary_descriptor and the encoding of an interface object that is  *)
(* not part of the configuration.                                          *)
(***************************************************************************)
Bytes == 0..MaxByte

\* The nine-byte interface descriptors.
Blobs == [1..9 -> Bytes]

\* The parser reading its seven fields from the start of the data, without
\* skipping the two pad bytes.
from_binary_descriptor_without_padding(data) ==
    InterfaceObject(data[1], data[2], data[4], data[5], data[6], data[7],
                    <<>>, <<>>, <<>>)

\* struct.unpack_from("xxBBBBBBB", data) skips two bytes and reads seven: the
\* third of them, num_endpoints, is not passed on.  The constructor gives
\* the object fresh, empty registries; USBInterface itself declares no
\* endpoint and no descriptor for __post_init__ to add.  The string reference
\* is represented by the index it was looked up with.
from_binary_descriptor(data) ==
    InterfaceObject(data[3], data[4], data[6], data[7], data[8], data[9],
                    <<>>, <<>>, <<>>)

\* get_descriptor of an interface object; the string manager gives the
\* string reference its index.
object_descriptor(self) ==
    << 9, 4, self.number, self.alternate, Len(self.endpoints),
       self.class_number, self.subclass_number, self.protocol_number,
       self.interface_string >>
    \o attached_bytes(self.attached_descriptors)
    \o endpoint_bytes(DictValues(self.endpoints))

\* from_binary_descriptor(binary_descriptor), once there is data.
FromBinaryDescriptor ==
    /\ binary_descriptor # <<>>
    /\ parsed_interface' = from_binary_descriptor(binary_descriptor)
    /\ effects' = <<>>
    /\ raised' = FALSE
    /\ call' = Call("from_binary_descriptor", NoInterface, None, None, binary_descriptor)
    /\ UNCHANGED << binary_descriptor, encoded_interface, stalled_before,
                    registries, configuration, last_acknowledged, construction >>

\* The interfaces without endpoints and descriptors.
NewInterfaces ==
    { InterfaceObject(f[1], f[2], f[3], f[4], f[5], f[6], <<>>, <<>>, <<>>) :
        f \in [1..6 -> Bytes] }

\* get_descriptor of a new interface without endpoints and descriptors, offered
\* while there is no data to parse: its result becomes that data.
GetDescriptorOfNew(self) ==
    /\ binary_descriptor = <<>>
    /\ encoded_interface' = self
    /\ binary_descriptor' = object_descriptor(self)
    /\ parsed_interface' = NoObject
    /\ effects' = << Return(object_descriptor(self)) >>
    /\ raised' = FALSE
    /\ call' = Call("get_descriptor", NoInterface, None, None, <<>>)
    /\ UNCHANGED << stalled_before, registries, configuration, last_acknowledged,
                    construction >>

\* get_descriptor of the parsed interface.
GetDescriptorOfParsed ==
    /\ parsed_interface # NoObject
    /\ effects' = << Return(object_descriptor(parsed_interface)) >>
    /\ raised' = FALSE
    /\ call' = Call("get_descriptor", NoInterface, None, None, <<>>)
    /\ UNCHANGED << wire, stalled_before, registries, configuration, last_acknowledged, construction >>

GetDescriptorOfNewCall == \E self \in NewInterfaces : GetDescriptorOfNew(self)

InitWire ==
    /\ constructing = NoInterface
    /\ endpoints = [i \in Interfaces |-> <<>>]
    /\ endpoint_parent = [e \in EndpointObjects |-> NoInterface]
    /\ attached_descriptors = [i \in Interfaces |-> <<>>]
    /\ requestable_descriptors = [i \in Interfaces |-> <<>>]
    /\ descriptor_parent = [d \in DescriptorObjects |-> NoInterface]
    /\ interfaces = InterfaceTable
    /\ active_interfaces = << >>
    /\ device_configuration = FALSE
    /\ call = NoCall
    /\ effects = <<>>
    /\ raised = FALSE
    /\ last_acknowledged = << >>
    /\ stalled_before = 0
    /\ added_endpoints = <<>>
    /\ added_descriptors = <<>>
    /\ binary_descriptor \in Blobs \cup { <<>> }
    /\ encoded_interface = NoObject
    /\ parsed_interface = NoObject

NextWire ==
    \/ FromBinaryDescriptor \/ GetDescriptorOfNewCall \/ GetDescriptorOfParsed

SpecWire == InitWire /\ [][NextWire]_vars

(***************************************************************************)
(* What the last operation did, by collaborator.                           *)
(***************************************************************************)
IsResponse(x) == x.kind \in { "request.stall", "request.acknowledge", "request.reply" }
IsClearHalt(x) == x.kind = "backend.clear_halt"
Responses(effs) == SelectSeq(effs, IsResponse)
ClearHaltCalls(effs) == SelectSeq(effs, IsClearHalt)

\* The key (index_low, value) of the SET_INTERFACE request in `call`.
RequestedIdentifier(c) == << c.a, c.b >>

(***************************************************************************)
(* C1.  After a SET_INTERFACE on a configured device whose (index_low,     *)
(* value) is a key of the configuration's interfaces table, the active map *)
(* holds that interface under index_low, clear_halt was called exactly     *)
(* once for each endpoint of that interface and for no other endpoint, and *)
(* the only response is an acknowledge.                                    *)
(***************************************************************************)
C1_SetInterfaceHit ==
    ( /\ call.op = "SET_INTERFACE"
      /\ device_configuration
      /\ RequestedIdentifier(call) \in DOMAIN interfaces )
    => LET target == interfaces[RequestedIdentifier(call)]
           eps == DictValues(endpoints[target])
           halts == ClearHaltCalls(effects)
       IN  /\ call.a \in DOMAIN active_interfaces
           /\ active_interfaces[call.a] = target
           /\ Len(halts) = Len(eps)
           /\ \A k \in 1..Len(eps) :
                 Cardinality({ j \in 1..Len(halts) :
                     /\ halts[j].a = EndpointNumber(eps[k])
                     /\ halts[j].b = EndpointDirection(eps[k]) }) = 1
           /\ \A j \in 1..Len(halts) : \E k \in 1..Len(eps) :
                 /\ halts[j].a = EndpointNumber(eps[k])
                 /\ halts[j].b = EndpointDirection(eps[k])
           /\ Responses(effects) = << Acknowledge >>

\* A SET_INTERFACE to alternate 1 of interface 0, handled by another instance,
\* was acknowledged after clearing the halts of that alternate's two endpoints.
C1_Witness ==
    /\ call.op = "SET_INTERFACE"
    /\ call.a = 0 /\ call.b = 1
    /\ call.self # interfaces[<< 0, 1 >>]
    /\ device_configuration
    /\ Len(endpoints[interfaces[<< 0, 1 >>]]) = 2
    /\ Len(endpoints[call.self]) = 1
    /\ Len(ClearHaltCalls(effects)) = 2
    /\ active_interfaces[0] = interfaces[<< 0, 1 >>]
    /\ Responses(effects) = << Acknowledge >>

(***************************************************************************)
(* C2.  A SET_INTERFACE step taken when the device has no active           *)
(* configuration, or when (index_low, value) is no key of the interfaces   *)
(* table, answers with a stall only, leaves the active map as it was and   *)
(* calls clear_halt for no endpoint.                                       *)
(***************************************************************************)
C2_SetInterfaceMiss ==
    [][ ( /\ call'.op = "SET_INTERFACE"
          /\ \/ ~device_configuration
             \/ RequestedIdentifier(call') \notin DOMAIN interfaces )
        => /\ Responses(effects') = << Stall >>
           /\ active_interfaces' = active_interfaces
           /\ ClearHaltCalls(effects') = <<>> ]_vars

\* An unconfigured device stalled a SET_INTERFACE naming an existing
\* alternate that is not the active one.
C2_Witness ==
    /\ call.op = "SET_INTERFACE"
    /\ ~device_configuration
    /\ RequestedIdentifier(call) \in DOMAIN interfaces
    /\ call.a \in DOMAIN active_interfaces
    /\ active_interfaces[call.a] # interfaces[RequestedIdentifier(call)]
    /\ effects = << Stall >>

(***************************************************************************)
(* C3.  On a configured device, a GET_INTERFACE for a number N for which a *)
(* SET_INTERFACE(N, A) was acknowledged replies with exactly the one byte  *)
(* A of the most recent such request, whatever stalled requests or         *)
(* requests for other numbers came in between.                             *)
(***************************************************************************)
C3_GetAfterSet ==
    ( /\ call.op = "GET_INTERFACE"
      /\ device_configuration
      /\ call.a \in DOMAIN last_acknowledged )
    => effects = << Reply(<< last_acknowledged[call.a] >>) >>

\* GET_INTERFACE(0) replied 1 after SET_INTERFACE(0, 1) and a later
\* acknowledged SET_INTERFACE for interface 1.
C3_Witness ==
    /\ call.op = "GET_INTERFACE"
    /\ call.a = 0
    /\ DOMAIN last_acknowledged = { 0, 1 }
    /\ last_acknowledged[0] = 1
    /\ effects = << Reply(<< 1 >>) >>

(***************************************************************************)
(* C4.  A GET_INTERFACE step answers with a stall when the device has no   *)
(* active configuration or the active map has no entry for index_low, and  *)
(* in every case leaves the active map, the interfaces table and the       *)
(* endpoint registries unchanged.                                          *)
(***************************************************************************)
C4_GetInterface ==
    [][ call'.op = "GET_INTERFACE"
        => /\ ( ( \/ ~device_configuration
                  \/ call'.a \notin DOMAIN active_interfaces )
                => Responses(effects') = << Stall >> )
           /\ active_interfaces' = active_interfaces
           /\ interfaces' = interfaces
           /\ endpoints' = endpoints ]_vars

\* A configured device stalled a GET_INTERFACE for a number of the table
\* that has no active alternate.
C4_Witness ==
    /\ call.op = "GET_INTERFACE"
    /\ device_configuration
    /\ call.a \notin DOMAIN active_interfaces
    /\ << call.a, 0 >> \in DOMAIN interfaces
    /\ effects = << Stall >>

(***************************************************************************)
(* The registry of `self` is well formed: every endpoint is stored under   *)
(* its own address, has `self` as parent, is the first accepted endpoint   *)
(* with that address, and no two registered endpoints share an address.    *)
(***************************************************************************)
FirstWithAddress(log, address) ==
    log[CHOOSE j \in 1..Len(log) :
            /\ EndpointAddress(log[j]) = address
            /\ \A i \in 1..(j - 1) : EndpointAddress(log[i]) # address]

EndpointRegistryWellFormed(registry, parent, log, self) ==
    /\ \A k \in 1..Len(registry) :
          /\ registry[k].key = EndpointAddress(registry[k].value)
          /\ parent[registry[k].value] = self
          /\ \E j \in 1..Len(log) : EndpointAddress(log[j]) = registry[k].key
          /\ registry[k].value = FirstWithAddress(log, registry[k].key)
    /\ \A j, k \in 1..Len(registry) :
          j # k => EndpointAddress(registry[j].value) # EndpointAddress(registry[k].value)

(***************************************************************************)
(* C5.  An add_endpoint step for an endpoint whose address is already a    *)
(* key of the registry raises and leaves the registry and every parent     *)
(* link as they were; after every add_endpoint step each registered        *)
(* endpoint is stored under its own address, is the first endpoint         *)
(* accepted with that address, has this interface as parent, and no two    *)
(* registered endpoints share an address.                                  *)
(***************************************************************************)
C5_AddEndpointDuplicate ==
    [][ call'.op = "add_endpoint"
        => /\ ( DictHas(endpoints[call'.self], EndpointAddress(call'.a))
                => /\ raised'
                   /\ endpoints' = endpoints
                   /\ endpoint_parent' = endpoint_parent )
           /\ EndpointRegistryWellFormed(endpoints'[call'.self], endpoint_parent',
                                         added_endpoints', call'.self) ]_vars

\* An endpoint object that was never registered was rejected because another
\* object holds its address; the registry holds two endpoints.
C5_Witness ==
    /\ call.op = "add_endpoint"
    /\ raised
    /\ DictHas(endpoints[call.self], EndpointAddress(call.a))
    /\ DictGet(endpoints[call.self], EndpointAddress(call.a)) # call.a
    /\ endpoint_parent[call.a] = NoInterface
    /\ Len(endpoints[call.self]) = 2

(***************************************************************************)
(* C6.  An add_descriptor step for a descriptor with include_in_config     *)
(* false and no number raises and leaves attached_descriptors,             *)
(* requestable_descriptors and every parent link as they were; after every *)
(* add_descriptor step each entry of requestable_descriptors has a number. *)
(***************************************************************************)
C6_AddDescriptorWithoutNumber ==
    [][ call'.op = "add_descriptor"
        => /\ ( ( /\ ~DescriptorIncludeInConfig(call'.a)
                  /\ DescriptorNumber(call'.a) = None )
                => /\ raised'
                   /\ attached_descriptors' = attached_descriptors
                   /\ requestable_descriptors' = requestable_descriptors
                   /\ descriptor_parent' = descriptor_parent )
           /\ \A k \in 1..Len(requestable_descriptors'[call'.self]) :
                 /\ DescriptorNumber(requestable_descriptors'[call'.self][k].value) # None
                 /\ requestable_descriptors'[call'.self][k].key[2] # None ]_vars

\* A descriptor without a number was rejected by an interface that holds an
\* attached and a requestable descriptor.
C6_Witness ==
    /\ call.op = "add_descriptor"
    /\ raised
    /\ ~DescriptorIncludeInConfig(call.a)
    /\ DescriptorNumber(call.a) = None
    /\ descriptor_parent[call.a] = NoInterface
    /\ Len(attached_descriptors[call.self]) > 0
    /\ Len(requestable_descriptors[call.self]) > 0

\* The first descriptor of the log that went to requestable_descriptors
\* (include_in_config false) with the given identifier.
FirstRequestable(log, identifier) ==
    log[CHOOSE j \in 1..Len(log) :
            /\ ~DescriptorIncludeInConfig(log[j])
            /\ DescriptorIdentifier(log[j]) = identifier
            /\ \A i \in 1..(j - 1) :
                  \/ DescriptorIncludeInConfig(log[i])
                  \/ DescriptorIdentifier(log[i]) # identifier]

(***************************************************************************)
(* C7.  An add_descriptor step for a descriptor with include_in_config     *)
(* false, a number, and an identifier (type_number, number) that is a key  *)
(* of requestable_descriptors raises and leaves the registry as it was;    *)
(* after every add_descriptor step each key of requestable_descriptors     *)
(* maps to the first descriptor accepted into requestable_descriptors with *)
(* that identifier.                                                        *)
(***************************************************************************)
C7_AddDescriptorDuplicate ==
    [][ call'.op = "add_descriptor"
        => /\ ( ( /\ ~DescriptorIncludeInConfig(call'.a)
                  /\ DescriptorNumber(call'.a) # None
                  /\ DictHas(requestable_descriptors[call'.self],
                             DescriptorIdentifier(call'.a)) )
                => /\ raised'
                   /\ requestable_descriptors' = requestable_descriptors
                   /\ attached_descriptors' = attached_descriptors )
           /\ \A k \in 1..Len(requestable_descriptors'[call'.self]) :
                 LET entry == requestable_descriptors'[call'.self][k]
                 IN  /\ entry.key = DescriptorIdentifier(entry.value)
                     /\ \E j \in 1..Len(added_descriptors') :
                           /\ ~DescriptorIncludeInConfig(added_descriptors'[j])
                           /\ DescriptorIdentifier(added_descriptors'[j]) = entry.key
                     /\ entry.value = FirstRequestable(added_descriptors', entry.key) ]_vars

\* A descriptor was rejected because another object holds its identifier,
\* after a descriptor with the same identifier was attached.
C7_Witness ==
    /\ call.op = "add_descriptor"
    /\ raised
    /\ ~DescriptorIncludeInConfig(call.a)
    /\ DescriptorNumber(call.a) # None
    /\ DictGet(requestable_descriptors[call.self], DescriptorIdentifier(call.a)) # call.a
    /\ \E k \in 1..Len(attached_descriptors[call.self]) :
          DescriptorIdentifier(attached_descriptors[call.self][k])
              = DescriptorIdentifier(call.a)

\* The total length of a sequence of byte strings.
RECURSIVE TotalLength(_)
TotalLength(blobs) ==
    IF blobs = <<>> THEN 0 ELSE Len(Head(blobs)) + TotalLength(Tail(blobs))

\* The segments get_descriptor is to emit after the header, from the calls
\* that were accepted: the attached descriptors in call order, then for each
\* endpoint in call order its descriptor and its attached descriptors.
ExpectedSegments ==
    LET attached == SelectSeq(added_descriptors, DescriptorIncludeInConfig)
    IN  [k \in 1..Len(attached) |-> DescriptorBytes(attached[k])]
        \o Concatenate([k \in 1..Len(added_endpoints) |->
               << EndpointDescriptor(added_endpoints[k]) >>
               \o EndpointAttachedDescriptors(added_endpoints[k])])

(***************************************************************************)
(* C8.  get_descriptor returns the header [9, 4, number, alternate, number *)
(* of accepted add_endpoint calls, class, subclass, protocol, string       *)
(* index], then every accepted attached descriptor in call order, then for *)
(* each accepted endpoint in call order its descriptor and its attached    *)
(* descriptors; byte 4 is the number of accepted add_endpoint calls, the   *)
(* length is 9 plus the lengths of these segments, and rejected calls and  *)
(* requestable descriptors contribute nothing.                             *)
(***************************************************************************)
C8_GetDescriptor ==
    call.op = "get_descriptor"
    => /\ Len(effects) = 1
       /\ effects[1].kind = "return"
       /\ LET d == effects[1].data
              self == call.self
          IN  /\ Len(d) = 9 + TotalLength(ExpectedSegments)
              /\ SubSeq(d, 1, 9) =
                    << 9, 4, self.number, self.alternate, Len(added_endpoints),
                       ClassNumber(self), SubclassNumber(self),
                       ProtocolNumber(self), StringIndex(self) >>
              /\ d[5] = Len(added_endpoints)
              /\ SubSeq(d, 10, Len(d)) = Concatenate(ExpectedSegments)

\* The encoding of an interface with two attached descriptors, a requestable
\* descriptor and two endpoints registered in descending order of address.
C8_Witness ==
    /\ call.op = "get_descriptor"
    /\ Len(attached_descriptors[call.self]) = 2
    /\ Len(requestable_descriptors[call.self]) = 1
    /\ Len(endpoints[call.self]) = 2
    /\ endpoints[call.self][1].key > endpoints[call.self][2].key
    /\ \E k \in 1..2 : EndpointAttachedDescriptors(endpoints[call.self][k].value) # <<>>
    /\ Len(effects[1].data) > 9 + 14

\* Some registered endpoint of `self` has the number and direction of `e`.
Registered(self, e) ==
    \E k \in 1..Len(endpoints[self]) :
        /\ EndpointNumber(endpoints[self][k].value) = EndpointNumber(e)
        /\ EndpointDirection(endpoints[self][k].value) = EndpointDirection(e)

IsEndpointCall(x) ==
    x.kind \in { "endpoint.handle_data_received", "endpoint.handle_data_requested",
                 "endpoint.handle_buffer_empty" }

(***************************************************************************)
(* C9.  A data-received or data-requested event whose (number, direction)  *)
(* is not registered in the interface is reported to the device exactly    *)
(* once, with the endpoint number (and the payload of a data-received      *)
(* event), and no endpoint handler runs; when the pair is registered,      *)
(* exactly one endpoint handler of the event's kind runs and nothing is    *)
(* reported.  No event is both forwarded and reported, or dropped.         *)
(***************************************************************************)
C9_UnexpectedTraffic ==
    call.op \in { "handle_data_received", "handle_data_requested" }
    => /\ Len(effects) = 1
       /\ IF Registered(call.self, call.a)
          THEN /\ IsEndpointCall(effects[1])
               /\ effects[1].kind =
                     ( IF call.op = "handle_data_received"
                       THEN "endpoint.handle_data_received"
                       ELSE "endpoint.handle_data_requested" )
               /\ effects[1].data = call.data
          ELSE effects[1] =
                  ( IF call.op = "handle_data_received"
                    THEN Effect("device.handle_unexpected_data_received",
                                EndpointNumber(call.a), None, call.data)
                    ELSE Effect("device.handle_unexpected_data_requested",
                                EndpointNumber(call.a), None, <<>>) )

\* A data-requested event for an endpoint whose number is registered with the
\* other direction only was reported to the device.
C9_Witness ==
    /\ call.op = "handle_data_requested"
    /\ ~Registered(call.self, call.a)
    /\ \E k \in 1..Len(endpoints[call.self]) :
          EndpointNumber(endpoints[call.self][k].value) = EndpointNumber(call.a)
    /\ effects = << Effect("device.handle_unexpected_data_requested",
                           EndpointNumber(call.a), None, <<>>) >>

(***************************************************************************)
(* C10.  When a traffic handler finds the event's (number, direction) in   *)
(* the interface's registry, the endpoint object whose handler runs is the *)
(* one stored in the registry under that address, also when the object     *)
(* passed with the event is another object with the same address.          *)
(***************************************************************************)
C10_ForwardedToRegisteredEndpoint ==
    ( /\ call.op \in { "handle_data_received", "handle_data_requested",
                       "handle_buffer_empty" }
      /\ Registered(call.self, call.a) )
    => /\ Len(effects) = 1
       /\ IsEndpointCall(effects[1])
       /\ effects[1].a = DictGet(endpoints[call.self], EndpointAddress(call.a))

(***************************************************************************)
(* C11.  A handle_buffer_empty step for an endpoint whose (number,         *)
(* direction) is not registered in the interface calls no endpoint         *)
(* handler, reports nothing to the device and raises nothing; when the     *)
(* pair is registered exactly one endpoint handle_buffer_empty call is     *)
(* made.  In both cases the registries and the configuration are as they   *)
(* were.                                                                   *)
(***************************************************************************)
C11_BufferEmpty ==
    [][ call'.op = "handle_buffer_empty"
        => /\ IF Registered(call'.self, call'.a)
              THEN /\ Len(effects') = 1
                   /\ effects'[1].kind = "endpoint.handle_buffer_empty"
              ELSE effects' = <<>>
           /\ ~raised'
           /\ registries' = registries
           /\ configuration' = configuration
           /\ last_acknowledged' = last_acknowledged ]_vars

\* A buffer-empty event for endpoint 1 OUT was ignored by an interface that
\* holds endpoint 1 IN only.
C11_Witness ==
    /\ call.op = "handle_buffer_empty"
    /\ ~Registered(call.self, call.a)
    /\ Len(endpoints[call.self]) = 1
    /\ EndpointNumber(endpoints[call.self][1].value) = EndpointNumber(call.a)
    /\ effects = <<>>
    /\ ~raised

\* The accepted endpoints with the given number and direction.
AcceptedWith(log, endpoint_number, direction) ==
    { j \in 1..Len(log) : /\ EndpointNumber(log[j]) = endpoint_number
                          /\ EndpointDirection(log[j]) = direction }

(***************************************************************************)
(* C12.  After any sequence of add_endpoint calls, a get_endpoint(number,  *)
(* direction) step returns the one endpoint that add_endpoint accepted     *)
(* with that number and direction, or None when there is none, and raises  *)
(* nothing; a has_endpoint step returns True exactly when there is one;    *)
(* neither changes the registry.                                           *)
(***************************************************************************)
C12_Lookup ==
    [][ call'.op \in { "get_endpoint", "has_endpoint" }
        => LET found == AcceptedWith(added_endpoints, call'.a, call'.b)
           IN  /\ Cardinality(found) <= 1
               /\ Len(effects') = 1
               /\ effects'[1].kind = "return"
               /\ call'.op = "get_endpoint"
                     => effects'[1].a = ( IF found = {} THEN None
                                          ELSE added_endpoints[CHOOSE j \in found : TRUE] )
               /\ call'.op = "has_endpoint"
                     => effects'[1].a = ( IF found = {} THEN 0 ELSE 1 )
               /\ ~raised'
               /\ registries' = registries ]_vars

\* get_endpoint(1, OUT) returned the second of two registered endpoints, the
\* first being endpoint 1 IN.
C12_Witness ==
    /\ call.op = "get_endpoint"
    /\ call.a = 1 /\ call.b = USBDirection_OUT
    /\ Len(endpoints[call.self]) = 2
    /\ endpoints[call.self][1].key = address_for_number(1, USBDirection_IN)
    /\ effects = << ReturnValue(endpoints[call.self][2].value) >>

(***************************************************************************)
(* C13: from_binary_descriptor ignores bytes 0 and 1 of the nine-byte data *)
(* and its bNumEndpoints byte: the interface it makes has number,          *)
(* alternate, class_number, subclass_number and protocol_number equal to   *)
(* bytes 2, 3, 5, 6 and 7 and has no endpoint and no descriptor.  Parsing  *)
(* the encoding of an interface without endpoints and descriptors gives    *)
(* the same number, alternate, class, subclass and protocol, and the       *)
(* encoding of a parsed interface has 0 in byte 4 whatever byte 4 of the   *)
(* parsed data was.  (Sequences count from 1: byte k is element k + 1.)    *)
(***************************************************************************)
C13_FromBinaryDescriptor ==
    /\ parsed_interface # NoObject
          => /\ parsed_interface.number = binary_descriptor[3]
             /\ parsed_interface.alternate = binary_descriptor[4]
             /\ parsed_interface.class_number = binary_descriptor[6]
             /\ parsed_interface.subclass_number = binary_descriptor[7]
             /\ parsed_interface.protocol_number = binary_descriptor[8]
             /\ parsed_interface.endpoints = <<>>
             /\ parsed_interface.attached_descriptors = <<>>
             /\ parsed_interface.requestable_descriptors = <<>>
             /\ \A b0, b1, b4 \in Bytes :
                    from_binary_descriptor([binary_descriptor EXCEPT
                                               ![1] = b0, ![2] = b1, ![5] = b4])
                       = parsed_interface
             /\ encoded_interface # NoObject
                   => /\ parsed_interface.number = encoded_interface.number
                      /\ parsed_interface.alternate = encoded_interface.alternate
                      /\ parsed_interface.class_number = encoded_interface.class_number
                      /\ parsed_interface.subclass_number = encoded_interface.subclass_number
                      /\ parsed_interface.protocol_number = encoded_interface.protocol_number
    /\ (call.op = "get_descriptor" /\ parsed_interface # NoObject)
          => /\ Len(effects) = 1
             /\ Len(effects[1].data) = 9
             /\ effects[1].data[5] = 0

\* Data whose pad bytes are not 9 and 4 and whose bNumEndpoints is not 0 was
\* parsed into an interface with distinct number and alternate, and the
\* parsed interface was encoded.
C13_Witness ==
    /\ call.op = "get_descriptor"
    /\ parsed_interface # NoObject
    /\ encoded_interface = NoObject
    /\ binary_descriptor[1] # 9
    /\ binary_descriptor[5] # 0
    /\ binary_descriptor[3] # binary_descriptor[4]
    /\ effects[1].data[3] = binary_descriptor[3]

(***************************************************************************)
(* C15: add_descriptor of a descriptor marked include_in_config always     *)
(* succeeds: the descriptor is appended at the end of attached_descriptors *)
(* (the earlier ones keep their places), its parent becomes the interface, *)
(* requestable_descriptors is unchanged; this also when the descriptor has *)
(* no number or when its identifier is that of an attached or requestable  *)
(* descriptor: attached descriptors are not checked for duplicates.        *)
(***************************************************************************)
C15_AddAttachedDescriptor ==
    [][ ( call'.op = "add_descriptor" /\ DescriptorIncludeInConfig(call'.a) )
        => /\ ~raised'
           /\ attached_descriptors' =
                 [attached_descriptors EXCEPT ![call'.self] = Append(@, call'.a)]
           /\ descriptor_parent' = [descriptor_parent EXCEPT ![call'.a] = call'.self]
           /\ requestable_descriptors' = requestable_descriptors
           /\ endpoints' = endpoints ]_vars

\* A descriptor was attached a second time while another, requestable
\* descriptor has its identifier.
C15_Witness ==
    /\ call.op = "add_descriptor"
    /\ DescriptorIncludeInConfig(call.a)
    /\ ~raised
    /\ Len(attached_descriptors[call.self]) = 2
    /\ attached_descriptors[call.self][1] = call.a
    /\ attached_descriptors[call.self][2] = call.a
    /\ DictHas(requestable_descriptors[call.self], DescriptorIdentifier(call.a))
    /\ DictGet(requestable_descriptors[call.self], DescriptorIdentifier(call.a)) # call.a

(***************************************************************************)
(* C14: a stalled SET_INTERFACE or GET_INTERFACE leaves no error state     *)
(* behind.  A request that comes after one or more stalled requests is     *)
(* served as any other: on a configured device a SET_INTERFACE whose       *)
(* (index_low, value) is a key of the table is acknowledged and makes that *)
(* interface the active one, and a GET_INTERFACE for a number with an      *)
(* active alternate replies with the byte of that alternate.               *)
(***************************************************************************)
C14_StallIsNotTerminal ==
    ( stalled_before > 0 /\ device_configuration )
    => /\ ( /\ call.op = "SET_INTERFACE"
            /\ RequestedIdentifier(call) \in DOMAIN interfaces )
          => /\ Responses(effects) = << Acknowledge >>
             /\ call.a \in DOMAIN active_interfaces
             /\ active_interfaces[call.a] = interfaces[RequestedIdentifier(call)]
       /\ ( /\ call.op = "GET_INTERFACE"
            /\ call.a \in DOMAIN active_interfaces )
          => effects = << Reply(<< active_interfaces[call.a].alternate >>) >>

\* After two stalled requests in a row, a SET_INTERFACE to alternate 1 of
\* interface 0 was acknowledged and alternate 1 is the active one.
C14_Witness ==
    /\ stalled_before >= 2
    /\ device_configuration
    /\ call.op = "SET_INTERFACE"
    /\ call.a = 0 /\ call.b = 1
    /\ active_interfaces[0] = interfaces[<< 0, 1 >>]
    /\ Responses(effects) = << Acknowledge >>

(***************************************************************************)
(* C16: every SET_INTERFACE and every GET_INTERFACE handled produces       *)
(* exactly one response: a SET_INTERFACE one acknowledge or one stall, a   *)
(* GET_INTERFACE one reply or one stall; never none and never two.         *)
(***************************************************************************)
C16_ExactlyOneResponse ==
    /\ call.op = "SET_INTERFACE"
          => /\ Len(Responses(effects)) = 1
             /\ Responses(effects)[1] \in { Acknowledge, Stall }
    /\ call.op = "GET_INTERFACE"
          => /\ Len(Responses(effects)) = 1
             /\ Responses(effects)[1].kind \in { "request.reply", "request.stall" }

\* A SET_INTERFACE made four calls on its collaborators, one of them a response.
C16_Witness ==
    /\ call.op = "SET_INTERFACE"
    /\ Len(effects) = 4
    /\ Len(ClearHaltCalls(effects)) = 2
    /\ Len(Responses(effects)) = 1

(***************************************************************************)
(* C17: a successful SET_INTERFACE first writes the active entry, then     *)
(* calls clear_halt for every endpoint of the interface that is now        *)
(* active, in the order of its registry, and sends the acknowledge after   *)
(* the last clear_halt; the endpoints cleared are those of the requested   *)
(* alternate and not those of the instance that handled the request.       *)
(***************************************************************************)
C17_SetInterfaceOrder ==
    ( /\ call.op = "SET_INTERFACE"
      /\ device_configuration
      /\ RequestedIdentifier(call) \in DOMAIN interfaces )
    => LET target == interfaces[RequestedIdentifier(call)]
           eps == DictValues(endpoints[target])
       IN  /\ Len(effects) = Len(eps) + 2
           /\ effects[1] = SetActive(call.a, target)
           /\ \A k \in 1..Len(eps) :
                 effects[k + 1] = ClearHalt(EndpointNumber(eps[k]), EndpointDirection(eps[k]))
           /\ effects[Len(effects)] = Acknowledge

\* An instance with one endpoint handled a SET_INTERFACE to the other
\* alternate, which has two endpoints.
C17_Witness ==
    /\ call.op = "SET_INTERFACE"
    /\ device_configuration
    /\ RequestedIdentifier(call) \in DOMAIN interfaces
    /\ call.self # interfaces[RequestedIdentifier(call)]
    /\ call.self.number = call.a
    /\ Len(endpoints[call.self]) = 1
    /\ Len(endpoints[interfaces[RequestedIdentifier(call)]]) = 2
    /\ ClearHaltCalls(effects) # clear_halts(DictValues(endpoints[call.self]))
    /\ effects[1].kind = "active_interfaces.__setitem__"
    /\ effects[4] = Acknowledge

(***************************************************************************)
(* C18: a SET_INTERFACE, acknowledged or stalled, changes nothing but the  *)
(* entry active_interfaces[index_low]: the active entries of the other     *)
(* numbers, the interfaces table, the endpoint and descriptor registries   *)
(* of every interface and the (number, alternate) of every interface stay  *)
(* as they were.                                                           *)
(***************************************************************************)
C18_SetInterfaceFrame ==
    [][ call'.op = "SET_INTERFACE"
        => /\ \A n \in ( DOMAIN active_interfaces \cup DOMAIN active_interfaces' )
                        \ { call'.a } :
                 /\ n \in DOMAIN active_interfaces
                 /\ n \in DOMAIN active_interfaces'
                 /\ active_interfaces'[n] = active_interfaces[n]
           /\ interfaces' = interfaces
           /\ \A id \in DOMAIN interfaces :
                 get_identifier(interfaces'[id]) = get_identifier(interfaces[id])
           /\ registries' = registries
           /\ device_configuration' = device_configuration ]_vars

\* Interface 0 was switched to alternate 1 while interface 1 has its
\* alternate 0 active.
C18_Witness ==
    /\ call.op = "SET_INTERFACE"
    /\ call.a = 0 /\ call.b = 1
    /\ Responses(effects) = << Acknowledge >>
    /\ DOMAIN active_interfaces = { 0, 1 }
    /\ active_interfaces[0] = interfaces[<< 0, 1 >>]
    /\ active_interfaces[1] = interfaces[<< 1, 0 >>]
    /\ 0 \in DOMAIN last_acknowledged
    /\ 1 \notin DOMAIN last_acknowledged

(***************************************************************************)
(* C19: in every state reached by SET_INTERFACE and GET_INTERFACE requests *)
(* the interfaces table is keyed by each interface's own (number,          *)
(* alternate), every active_interfaces[N] is an interface of that table    *)
(* whose number is N, and no number has two active alternates.             *)
(***************************************************************************)
C19_ActiveMapWellFormed ==
    /\ \A id \in DOMAIN interfaces : get_identifier(interfaces[id]) = id
    /\ \A n \in DOMAIN active_interfaces :
          /\ \E id \in DOMAIN interfaces : interfaces[id] = active_interfaces[n]
          /\ active_interfaces[n].number = n
    /\ \A n \in { i.number : i \in Interfaces } :
          Cardinality({ m \in DOMAIN active_interfaces :
                           active_interfaces[m].number = n }) <= 1

\* Both interface numbers were switched by acknowledged requests, interface
\* 0 to its alternate 1 by a request whose value equals the other number.
C19_Witness ==
    /\ call.op = "SET_INTERFACE"
    /\ DOMAIN last_acknowledged = { 0, 1 }
    /\ last_acknowledged[0] = 1
    /\ active_interfaces[0] = interfaces[<< 0, 1 >>]
    /\ active_interfaces[1] = interfaces[<< 1, 0 >>]

(***************************************************************************)
(* C20: the outcome of a SET_INTERFACE or GET_INTERFACE does not depend on *)
(* which alternate handles it: in every state, two interfaces with the     *)
(* same number give the same response, the same new active map and the     *)
(* same clear_halt calls for the same request.                             *)
(***************************************************************************)
C20_HandlingInstanceIrrelevant ==
    \A self, other \in Interfaces :
        matches_identifier(self, other.number)
        => /\ \A index_low \in 0..MaxIndexLow : \A value \in 0..MaxValue :
                 handle_set_interface_request(self, index_low, value)
                    = handle_set_interface_request(other, index_low, value)
           /\ \A index_low \in 0..MaxIndexLow :
                 handle_get_interface_request(self, index_low)
                    = handle_get_interface_request(other, index_low)

\* Alternate 1 of interface 0 answered a GET_INTERFACE with the byte of the
\* active alternate 0, whose endpoints differ from its own.
C20_Witness ==
    /\ call.op = "GET_INTERFACE"
    /\ call.self = interfaces[<< 0, 1 >>]
    /\ call.a = 0
    /\ 0 \in DOMAIN active_interfaces
    /\ active_interfaces[0] = interfaces[<< 0, 0 >>]
    /\ endpoints[interfaces[<< 0, 0 >>]] # endpoints[interfaces[<< 0, 1 >>]]
    /\ effects = handle_get_interface_request(interfaces[<< 0, 0 >>], 0)
    /\ effects = << Reply(<< 0 >>) >>

=============================================================================
